---- MODULE Spec2Model ----
(***************************************************************************)
(* Lifecycle orchestrator of the bot service (src/app/__main__.py):        *)
(* main() builds the subsystem handles, registers on_startup and           *)
(* on_shutdown on the dispatcher and starts polling.  The dispatcher runs  *)
(* on_startup, then the polling loop, then on_shutdown.  Every call a      *)
(* handler makes is one step of the model; a call either returns or        *)
(* raises, and neither handler catches anything.                           *)
(***************************************************************************)
EXTENDS Integers, Sequences, FiniteSets, TLC

(* ------------------------------ bounds -------------------------------- *)

\* inbound events the polling loop dispatches in one run
MaxEvents == 2

\* writes to the admins table during one run
MaxAdminChanges == 1

\* triggers fired outside the dispatcher's normal start/stop sequence
MaxRetriggers == 1

(* --------------------------- fixed universes -------------------------- *)

\* administrator identities the admins table may hold
AdminIds == {7, 42}

\* tables declared on Base.metadata
Tables == {"admins", "users"}

\* attributes on_startup stores on the event loop
LoopAttrNames == {"dispatcher", "bot", "config", "tonapi", "sessionmaker"}

VARIABLES
    pc,              \* position of the process: main, startup, polling, ...
    step,            \* index of the next call inside the running handler
    log,             \* every call made so far, in order, with its outcome
    failedAt,        \* the call whose exception left a handler (or none)
    loopAttrs,       \* attributes set on the event loop: name -> handle id, 0 unset
    schema,          \* tables existing in the database
    dbAdmins,        \* admin identities currently stored in the database
    admins_ids,      \* the handlers' local variable admins_ids
    defaultMenu,     \* default command menu is published remotely
    adminMenu,       \* identities whose admin command menu is published remotely
    schedulerActive, \* scheduler.run() done and scheduler.shutdown() not yet
    engineDisposed,  \* engine.dispose() done
    botSession,      \* bot.session: "none", "open" or "closed"
    tonapiSession,   \* tonapi.session: "none", "open" or "closed"
    events,          \* inbound events dispatched by the polling loop
    adminChanges,    \* writes made to the admins table
    retriggers       \* handler invocations outside the normal sequence

vars == <<pc, step, log, failedAt, loopAttrs, schema, dbAdmins, admins_ids,
          defaultMenu, adminMenu, schedulerActive, engineDisposed,
          botSession, tonapiSession, events, adminChanges, retriggers>>

(* ------------------------------ helpers ------------------------------- *)

NoFailure == [phase |-> "none", op |-> "none"]

Entry(ph, o, ids, ok) == [phase |-> ph, op |-> o, ids |-> ids, ok |-> ok]

\* a variant: every invocation of a handler is handed freshly built handles
ContextHandle_fresh(n) == 1 + retriggers

\* the handle main() constructs for a loop attribute (one per process)
ContextHandle(n) == 1

\* a variant order: the scheduler activated only after the admin set is read
StartupSteps_schedulerLate ==
    <<"publish_handles", "create_all", "bot_middlewares_register",
      "bot_routers_include", "get_all_ids", "scheduler_run",
      "bot_commands_setup", "bot_admin_commands_setup">>

\* the calls of on_startup, in the order the handler makes them
StartupSteps ==
    <<"publish_handles", "create_all", "bot_middlewares_register",
      "bot_routers_include", "scheduler_run", "get_all_ids",
      "bot_commands_setup", "bot_admin_commands_setup">>

\* a variant order: the scheduler deactivated before the engine is disposed
ShutdownSteps_schedulerFirst ==
    <<"get_all_ids", "bot_commands_delete", "bot_admin_commands_delete",
      "delete_webhook", "bot_session_close", "tonapi_session_close",
      "scheduler_shutdown", "engine_dispose">>

\* a variant order: the sessions closed before the remote state is undone
ShutdownSteps_sessionsFirst ==
    <<"get_all_ids", "bot_session_close", "tonapi_session_close",
      "bot_commands_delete", "bot_admin_commands_delete", "delete_webhook",
      "engine_dispose", "scheduler_shutdown">>

\* a variant order: the engine disposed before the admin set is read
ShutdownSteps_disposeFirst ==
    <<"engine_dispose", "get_all_ids", "bot_commands_delete",
      "bot_admin_commands_delete", "delete_webhook", "bot_session_close",
      "tonapi_session_close", "scheduler_shutdown">>

\* the calls of on_shutdown, in the order the handler makes them
ShutdownSteps ==
    <<"get_all_ids", "bot_commands_delete", "bot_admin_commands_delete",
      "delete_webhook", "bot_session_close", "tonapi_session_close",
      "engine_dispose", "scheduler_shutdown">>

\* a variant: an exception is swallowed and the handler goes on
StartupNext_swallow(i, ok) ==
    IF i < Len(StartupSteps) THEN [pc |-> "startup", step |-> i + 1]
    ELSE [pc |-> "polling", step |-> 0]

\* a variant: the handler returns once the routers are included
StartupNext_beforeScheduler(i, ok) ==
    IF ~ok THEN [pc |-> "startup_failed", step |-> i]
    ELSE IF i < 4 THEN [pc |-> "startup", step |-> i + 1]
    ELSE [pc |-> "polling", step |-> 0]

\* where control goes after call i of on_startup returned (ok) or raised:
\* the handler has no try/except, so an exception leaves it at once and
\* start_polling never reaches the polling loop
StartupNext(i, ok) ==
    IF ~ok THEN [pc |-> "startup_failed", step |-> i]
    ELSE IF i < Len(StartupSteps) THEN [pc |-> "startup", step |-> i + 1]
    ELSE [pc |-> "polling", step |-> 0]

\* where control goes after call i of on_shutdown returned, raised, or was
\* skipped by its if-guard (ok): no try/except here either
ShutdownNext(i, ok) ==
    IF ~ok THEN [pc |-> "shutdown_failed", step |-> i]
    ELSE IF i < Len(ShutdownSteps) THEN [pc |-> "shutdown", step |-> i + 1]
    ELSE [pc |-> "stopped", step |-> 0]

\* Base.metadata.create_all: creates the missing tables, keeps existing ones
CreateAll(s) == s \cup Tables

\* a variant: CREATE TABLE is issued without looking at what exists, so an
\* existing table makes the call raise
CreateAllOutcomes_noCheckfirst(s) ==
    IF s \cap Tables # {} THEN {FALSE} ELSE BOOLEAN

\* how create_all may end on a database holding the tables s: it returns
\* (TRUE) or raises for a reason of the connection (FALSE); tables that
\* exist already are skipped and are no error
CreateAllOutcomes(s) == BOOLEAN

\* `if bot.session:` / `if tonapi.session:` -- the attribute holds a session
HoldsSession(s) == s # "none"

\* bot_admin_commands_setup(bot, ids): the admin menu is registered for each
\* identity of ids
AdminMenuAfterSetup(menu, ids) == menu \cup ids

\* bot_admin_commands_delete(bot, ids): the admin menu is deleted for each
\* identity of ids
AdminMenuAfterDelete(menu, ids) == menu \ ids

\* a variant: polling already runs while on_startup is in progress
PollingAllowed_early == pc \in {"startup", "polling"}

\* the polling loop dispatches inbound events only between the return of
\* on_startup and the stop signal
PollingAllowed == pc = "polling"

\* a variant: the result of the read is dropped, the menu scope stays empty
StartupAdminsIds_unbound(db, old) == old

\* the value on_startup binds to admins_ids: the database read of line 63
StartupAdminsIds(db, old) == db

\* a variant: the set read at startup is reused
ShutdownAdminsIds_stale(db, old) == old

\* the value on_shutdown binds to admins_ids: the fresh database read
ShutdownAdminsIds(db, old) == db

(* ------------------------------- Init --------------------------------- *)

\* The state when main() is about to await bot.delete_webhook(): all
\* handles are constructed, nothing is published or registered.  The
\* database may be fresh or already populated; whether the clients hold a
\* session object is decided by their constructors.
Init ==
    /\ pc = "main"
    /\ step = 0
    /\ log = <<>>
    /\ failedAt = NoFailure
    /\ loopAttrs = [n \in LoopAttrNames |-> 0]
    /\ schema \in SUBSET Tables
    /\ dbAdmins \in (IF "admins" \in schema THEN SUBSET AdminIds ELSE {{}})
    /\ admins_ids = {}
    /\ defaultMenu = FALSE
    /\ adminMenu = {}
    /\ schedulerActive = FALSE
    /\ engineDisposed = FALSE
    /\ botSession \in {"none", "open"}
    /\ tonapiSession \in {"none", "open"}
    /\ events = 0
    /\ adminChanges = 0
    /\ retriggers = 0

(* ------------------------------ main() -------------------------------- *)

\* main(): `await bot.delete_webhook()` before polling is started
Main_DeleteWebhook ==
    /\ pc = "main"
    /\ \E ok \in BOOLEAN :
        /\ log' = Append(log, Entry("main", "delete_webhook", {}, ok))
        /\ pc' = IF ok THEN "start_polling" ELSE "crashed"
        /\ failedAt' = IF ok THEN failedAt
                       ELSE [phase |-> "main", op |-> "delete_webhook"]
    /\ UNCHANGED <<step, loopAttrs, schema, dbAdmins, admins_ids, defaultMenu,
                   adminMenu, schedulerActive, engineDisposed, botSession,
                   tonapiSession, events, retriggers,
                   adminChanges>>

\* dp.start_polling(...): the dispatcher fires the startup handlers first
StartTrigger ==
    /\ pc = "start_polling"
    /\ pc' = "startup"
    /\ step' = 1
    /\ UNCHANGED <<log, failedAt, loopAttrs, schema, dbAdmins, admins_ids,
                   defaultMenu, adminMenu, schedulerActive, engineDisposed,
                   botSession, tonapiSession, events, retriggers,
                   adminChanges>>

(* ----------------------------- on_startup ----------------------------- *)

StartupAt(name) ==
    /\ pc = "startup"
    /\ step \in 1..Len(StartupSteps)
    /\ StartupSteps[step] = name

\* bookkeeping shared by every call of on_startup: the call is logged and
\* control moves on, or the exception leaves the handler
StartupCall(name, ids, ok) ==
    /\ log' = Append(log, Entry("startup", name, ids, ok))
    /\ pc' = StartupNext(step, ok).pc
    /\ step' = StartupNext(step, ok).step
    /\ failedAt' = IF ok THEN failedAt ELSE [phase |-> "startup", op |-> name]

\* loop.__setattr__("dispatcher", ...) ... loop.__setattr__("sessionmaker", ...)
Startup_PublishHandles ==
    /\ StartupAt("publish_handles")
    /\ \E ok \in BOOLEAN :
        /\ StartupCall("publish_handles", {}, ok)
        /\ loopAttrs' = IF ok THEN [n \in LoopAttrNames |-> ContextHandle(n)]
                        ELSE loopAttrs
    /\ UNCHANGED <<schema, dbAdmins, admins_ids, defaultMenu, adminMenu,
                   schedulerActive, engineDisposed, botSession, tonapiSession,
                   events, retriggers,
                   adminChanges>>

\* async with engine.begin() as conn: await conn.run_sync(Base.metadata.create_all)
Startup_EnsureSchema ==
    /\ StartupAt("create_all")
    /\ \E ok \in CreateAllOutcomes(schema) :
        /\ StartupCall("create_all", {}, ok)
        /\ schema' = IF ok THEN CreateAll(schema) ELSE schema
    /\ UNCHANGED <<loopAttrs, dbAdmins, admins_ids, defaultMenu, adminMenu,
                   schedulerActive, engineDisposed, botSession, tonapiSession,
                   events, retriggers,
                   adminChanges>>

\* bot_middlewares_register(dispatcher, redis=..., config=..., ...)
Startup_RegisterMiddlewares ==
    /\ StartupAt("bot_middlewares_register")
    /\ \E ok \in BOOLEAN : StartupCall("bot_middlewares_register", {}, ok)
    /\ UNCHANGED <<loopAttrs, schema, dbAdmins, admins_ids, defaultMenu,
                   adminMenu, schedulerActive, engineDisposed, botSession,
                   tonapiSession, events, retriggers,
                   adminChanges>>

\* bot_routers_include(dispatcher)
Startup_IncludeRouters ==
    /\ StartupAt("bot_routers_include")
    /\ \E ok \in BOOLEAN : StartupCall("bot_routers_include", {}, ok)
    /\ UNCHANGED <<loopAttrs, schema, dbAdmins, admins_ids, defaultMenu,
                   adminMenu, schedulerActive, engineDisposed, botSession,
                   tonapiSession, events, retriggers,
                   adminChanges>>

\* scheduler.run()
Startup_SchedulerRun ==
    /\ StartupAt("scheduler_run")
    /\ \E ok \in BOOLEAN :
        /\ StartupCall("scheduler_run", {}, ok)
        /\ schedulerActive' = IF ok THEN TRUE ELSE schedulerActive
    /\ UNCHANGED <<loopAttrs, schema, dbAdmins, admins_ids, defaultMenu,
                   adminMenu, engineDisposed, botSession, tonapiSession,
                   events, retriggers,
                   adminChanges>>

\* admins_ids = await AdminDB.get_all_ids(sessionmaker, config)
\* (the query cannot succeed while the admins table does not exist)
Startup_FetchAdmins ==
    /\ StartupAt("get_all_ids")
    /\ \E ok \in (IF "admins" \in schema THEN BOOLEAN ELSE {FALSE}) :
        /\ StartupCall("get_all_ids", dbAdmins, ok)
        /\ admins_ids' = IF ok THEN StartupAdminsIds(dbAdmins, admins_ids)
                         ELSE admins_ids
    /\ UNCHANGED <<loopAttrs, schema, dbAdmins, defaultMenu, adminMenu,
                   schedulerActive, engineDisposed, botSession, tonapiSession,
                   events, retriggers,
                   adminChanges>>

\* await bot_commands_setup(bot)
Startup_CommandsSetup ==
    /\ StartupAt("bot_commands_setup")
    /\ \E ok \in BOOLEAN :
        /\ StartupCall("bot_commands_setup", {}, ok)
        /\ defaultMenu' = IF ok THEN TRUE ELSE defaultMenu
    /\ UNCHANGED <<loopAttrs, schema, dbAdmins, admins_ids, adminMenu,
                   schedulerActive, engineDisposed, botSession, tonapiSession,
                   events, retriggers,
                   adminChanges>>

\* await bot_admin_commands_setup(bot, admins_ids)
Startup_AdminCommandsSetup ==
    /\ StartupAt("bot_admin_commands_setup")
    /\ \E ok \in BOOLEAN :
        /\ StartupCall("bot_admin_commands_setup", admins_ids, ok)
        /\ adminMenu' = IF ok THEN AdminMenuAfterSetup(adminMenu, admins_ids)
                        ELSE adminMenu
    /\ UNCHANGED <<loopAttrs, schema, dbAdmins, admins_ids, defaultMenu,
                   schedulerActive, engineDisposed, botSession, tonapiSession,
                   events, retriggers,
                   adminChanges>>

(* ---------------------------- polling loop ---------------------------- *)

\* the polling loop fetches one inbound event and dispatches it
PollEvent ==
    /\ PollingAllowed
    /\ events < MaxEvents
    /\ events' = events + 1
    /\ UNCHANGED <<pc, step, log, failedAt, loopAttrs, schema, dbAdmins,
                   admins_ids, defaultMenu, adminMenu, schedulerActive,
                   engineDisposed, botSession, tonapiSession, retriggers,
                   adminChanges>>

\* the admins table is written while the service lives (by request handlers
\* and other database clients); both handlers therefore re-read it
AdminSetChange ==
    /\ pc \in {"startup", "polling", "shutdown"}
    /\ "admins" \in schema
    /\ adminChanges < MaxAdminChanges
    /\ adminChanges' = adminChanges + 1
    /\ \E A \in SUBSET AdminIds :
        /\ A # dbAdmins
        /\ dbAdmins' = A
    /\ UNCHANGED <<pc, step, log, failedAt, loopAttrs, schema, admins_ids,
                   defaultMenu, adminMenu, schedulerActive, engineDisposed,
                   botSession, tonapiSession, events, retriggers>>

\* the stop signal ends the polling loop; the dispatcher then fires the
\* shutdown handlers
StopTrigger ==
    /\ pc = "polling"
    /\ pc' = "shutdown"
    /\ step' = 1
    /\ UNCHANGED <<log, failedAt, loopAttrs, schema, dbAdmins, admins_ids,
                   defaultMenu, adminMenu, schedulerActive, engineDisposed,
                   botSession, tonapiSession, events, retriggers,
                   adminChanges>>

(* ----------------------------- on_shutdown ---------------------------- *)

ShutdownAt(name) ==
    /\ pc = "shutdown"
    /\ step \in 1..Len(ShutdownSteps)
    /\ ShutdownSteps[step] = name

\* bookkeeping shared by every call of on_shutdown
ShutdownCall(name, ids, ok) ==
    /\ log' = Append(log, Entry("shutdown", name, ids, ok))
    /\ pc' = ShutdownNext(step, ok).pc
    /\ step' = ShutdownNext(step, ok).step
    /\ failedAt' = IF ok THEN failedAt ELSE [phase |-> "shutdown", op |-> name]

\* an if-guarded call whose guard is false: nothing is called
ShutdownSkip ==
    /\ pc' = ShutdownNext(step, TRUE).pc
    /\ step' = ShutdownNext(step, TRUE).step
    /\ UNCHANGED <<log, failedAt>>

\* admins_ids = await AdminDB.get_all_ids(sessionmaker, config)
Shutdown_FetchAdmins ==
    /\ ShutdownAt("get_all_ids")
    /\ \E ok \in (IF "admins" \in schema THEN BOOLEAN ELSE {FALSE}) :
        /\ ShutdownCall("get_all_ids", dbAdmins, ok)
        /\ admins_ids' = IF ok THEN ShutdownAdminsIds(dbAdmins, admins_ids)
                         ELSE admins_ids
    /\ UNCHANGED <<loopAttrs, schema, dbAdmins, defaultMenu, adminMenu,
                   schedulerActive, engineDisposed, botSession, tonapiSession,
                   events, retriggers,
                   adminChanges>>

\* await bot_commands_delete(bot)
Shutdown_CommandsDelete ==
    /\ ShutdownAt("bot_commands_delete")
    /\ \E ok \in BOOLEAN :
        /\ ShutdownCall("bot_commands_delete", {}, ok)
        /\ defaultMenu' = IF ok THEN FALSE ELSE defaultMenu
    /\ UNCHANGED <<loopAttrs, schema, dbAdmins, admins_ids, adminMenu,
                   schedulerActive, engineDisposed, botSession, tonapiSession,
                   events, retriggers,
                   adminChanges>>

\* await bot_admin_commands_delete(bot, admins_ids)
Shutdown_AdminCommandsDelete ==
    /\ ShutdownAt("bot_admin_commands_delete")
    /\ \E ok \in BOOLEAN :
        /\ ShutdownCall("bot_admin_commands_delete", admins_ids, ok)
        /\ adminMenu' = IF ok THEN AdminMenuAfterDelete(adminMenu, admins_ids)
                        ELSE adminMenu
    /\ UNCHANGED <<loopAttrs, schema, dbAdmins, admins_ids, defaultMenu,
                   schedulerActive, engineDisposed, botSession, tonapiSession,
                   events, retriggers,
                   adminChanges>>

\* await bot.delete_webhook()
Shutdown_DeleteWebhook ==
    /\ ShutdownAt("delete_webhook")
    /\ \E ok \in BOOLEAN : ShutdownCall("delete_webhook", {}, ok)
    /\ UNCHANGED <<loopAttrs, schema, dbAdmins, admins_ids, defaultMenu,
                   adminMenu, schedulerActive, engineDisposed, botSession,
                   tonapiSession, events, retriggers,
                   adminChanges>>

\* if bot.session: await bot.session.close()
Shutdown_BotSessionClose ==
    /\ ShutdownAt("bot_session_close")
    /\ \/ /\ HoldsSession(botSession)
          /\ \E ok \in BOOLEAN :
              /\ ShutdownCall("bot_session_close", {}, ok)
              /\ botSession' = IF ok THEN "closed" ELSE botSession
       \/ /\ ~HoldsSession(botSession)
          /\ ShutdownSkip
          /\ UNCHANGED botSession
    /\ UNCHANGED <<loopAttrs, schema, dbAdmins, admins_ids, defaultMenu,
                   adminMenu, schedulerActive, engineDisposed, tonapiSession,
                   events, retriggers,
                   adminChanges>>

\* if tonapi.session: await tonapi.session.close()
Shutdown_TonapiSessionClose ==
    /\ ShutdownAt("tonapi_session_close")
    /\ \/ /\ HoldsSession(tonapiSession)
          /\ \E ok \in BOOLEAN :
              /\ ShutdownCall("tonapi_session_close", {}, ok)
              /\ tonapiSession' = IF ok THEN "closed" ELSE tonapiSession
       \/ /\ ~HoldsSession(tonapiSession)
          /\ ShutdownSkip
          /\ UNCHANGED tonapiSession
    /\ UNCHANGED <<loopAttrs, schema, dbAdmins, admins_ids, defaultMenu,
                   adminMenu, schedulerActive, engineDisposed, botSession,
                   events, retriggers,
                   adminChanges>>

\* await engine.dispose()
Shutdown_EngineDispose ==
    /\ ShutdownAt("engine_dispose")
    /\ \E ok \in BOOLEAN :
        /\ ShutdownCall("engine_dispose", {}, ok)
        /\ engineDisposed' = IF ok THEN TRUE ELSE engineDisposed
    /\ UNCHANGED <<loopAttrs, schema, dbAdmins, admins_ids, defaultMenu,
                   adminMenu, schedulerActive, botSession, tonapiSession,
                   events, retriggers,
                   adminChanges>>

\* scheduler.shutdown()
Shutdown_SchedulerShutdown ==
    /\ ShutdownAt("scheduler_shutdown")
    /\ \E ok \in BOOLEAN :
        /\ ShutdownCall("scheduler_shutdown", {}, ok)
        /\ schedulerActive' = IF ok THEN FALSE ELSE schedulerActive
    /\ UNCHANGED <<loopAttrs, schema, dbAdmins, admins_ids, defaultMenu,
                   adminMenu, engineDisposed, botSession, tonapiSession,
                   events, retriggers,
                   adminChanges>>

(* ----------- handlers invoked outside the normal sequence ------------- *)

\* on_startup carries no guard: fired again once the service runs or has
\* stopped, it executes from its first statement
RestartTrigger ==
    /\ pc \in {"polling", "stopped"}
    /\ retriggers < MaxRetriggers
    /\ retriggers' = retriggers + 1
    /\ pc' = "startup"
    /\ step' = 1
    /\ UNCHANGED <<log, failedAt, loopAttrs, schema, dbAdmins, admins_ids,
                   defaultMenu, adminMenu, schedulerActive, engineDisposed,
                   botSession, tonapiSession, events,
                   adminChanges>>

\* on_shutdown carries no guard: fired before the service was started or
\* after it has stopped, it executes from its first statement
RestopTrigger ==
    /\ pc \in {"start_polling", "stopped"}
    /\ retriggers < MaxRetriggers
    /\ retriggers' = retriggers + 1
    /\ pc' = "shutdown"
    /\ step' = 1
    /\ UNCHANGED <<log, failedAt, loopAttrs, schema, dbAdmins, admins_ids,
                   defaultMenu, adminMenu, schedulerActive, engineDisposed,
                   botSession, tonapiSession, events,
                   adminChanges>>

(* --------------------------- specifications --------------------------- *)

Next ==
    \/ Main_DeleteWebhook
    \/ StartTrigger
    \/ Startup_PublishHandles
    \/ Startup_EnsureSchema
    \/ Startup_RegisterMiddlewares
    \/ Startup_IncludeRouters
    \/ Startup_SchedulerRun
    \/ Startup_FetchAdmins
    \/ Startup_CommandsSetup
    \/ Startup_AdminCommandsSetup
    \/ PollEvent
    \/ AdminSetChange
    \/ StopTrigger
    \/ Shutdown_FetchAdmins
    \/ Shutdown_CommandsDelete
    \/ Shutdown_AdminCommandsDelete
    \/ Shutdown_DeleteWebhook
    \/ Shutdown_BotSessionClose
    \/ Shutdown_TonapiSessionClose
    \/ Shutdown_EngineDispose
    \/ Shutdown_SchedulerShutdown

\* main() as written: one start trigger, one stop trigger
Spec == Init /\ [][Next]_vars

\* any call of on_shutdown
ShutdownStep ==
    \/ Shutdown_FetchAdmins
    \/ Shutdown_CommandsDelete
    \/ Shutdown_AdminCommandsDelete
    \/ Shutdown_DeleteWebhook
    \/ Shutdown_BotSessionClose
    \/ Shutdown_TonapiSessionClose
    \/ Shutdown_EngineDispose
    \/ Shutdown_SchedulerShutdown

\* main() with every awaited call of on_shutdown eventually returning or
\* raising (no call hangs)
FairSpec == Spec /\ WF_vars(ShutdownStep)

NextRetrigger ==
    \/ Next
    \/ RestartTrigger
    \/ RestopTrigger

\* the handlers as entry points any caller of the dispatcher may fire
SpecRetrigger == Init /\ [][NextRetrigger]_vars

(* ------------------------- derived quantities ------------------------- *)

\* the lifecycle state of section 4.3, read off the position of the process;
\* a handler left by an exception never leaves its phase
State ==
    CASE pc \in {"main", "start_polling", "crashed"} -> "Unstarted"
      [] pc \in {"startup", "startup_failed"} -> "Starting"
      [] pc = "polling" -> "Running"
      [] pc \in {"shutdown", "shutdown_failed"} -> "Stopping"
      [] pc = "stopped" -> "Stopped"

\* the calls logged for one phase, in order
PhaseLog(ph) == SelectSeq(log, LAMBDA e : e.phase = ph)

\* positions of the log holding a call of the phase
Calls(ph, o) == {i \in 1..Len(log) : log[i].phase = ph /\ log[i].op = o}

\* ... that returned normally
Done(ph, o) == {i \in Calls(ph, o) : log[i].ok}

TypeOK ==
    /\ pc \in {"main", "start_polling", "crashed", "startup", "startup_failed",
               "polling", "shutdown", "shutdown_failed", "stopped"}
    /\ step \in 0..8
    /\ events \in 0..MaxEvents
    /\ retriggers \in 0..MaxRetriggers
    /\ adminChanges \in 0..MaxAdminChanges
    /\ dbAdmins \subseteq AdminIds
    /\ admins_ids \subseteq AdminIds
    /\ adminMenu \subseteq AdminIds
    /\ schema \subseteq Tables
    /\ botSession \in {"none", "open", "closed"}
    /\ tonapiSession \in {"none", "open", "closed"}

(* ------------------------------ claims -------------------------------- *)

\* the operations of a phase's logged calls, in order
Ops(ph) == [i \in 1..Len(PhaseLog(ph)) |-> PhaseLog(ph)[i].op]

IsPrefix(s, t) == Len(s) <= Len(t) /\ \A i \in 1..Len(s) : s[i] = t[i]

\* every call of the phase but the last one returned normally
AllButLastOk(ph) ==
    \A i \in 1..Len(PhaseLog(ph)) : i < Len(PhaseLog(ph)) => PhaseLog(ph)[i].ok

\* polling has been reached: on_startup returned
StartupReturned == pc \in {"polling", "shutdown", "shutdown_failed", "stopped"}

\* startup in the order the handler is written: the handles are published
\* first, the schema is ensured second
OrderAsWritten ==
    <<"publish_handles", "create_all", "bot_middlewares_register",
      "bot_routers_include", "scheduler_run", "get_all_ids",
      "bot_commands_setup", "bot_admin_commands_setup">>

\* startup in the documented order: 1 schema, 2 handles, 3 interceptors then
\* routers, 4 scheduler, 5 admin set, 6 default menu, 7 admin menu
OrderAsDocumented ==
    <<"create_all", "publish_handles", "bot_middlewares_register",
      "bot_routers_include", "scheduler_run", "get_all_ids",
      "bot_commands_setup", "bot_admin_commands_setup">>

StartupInOrder(order) ==
    /\ IsPrefix(Ops("startup"), order)
    /\ AllButLastOk("startup")
    /\ StartupReturned =>
          /\ Len(PhaseLog("startup")) = Len(order)
          /\ \A i \in 1..Len(PhaseLog("startup")) : PhaseLog("startup")[i].ok

\* C1 (as claimed): with startup invoked once, the startup steps run in the
\* documented order 1..7, each after the previous one completed, and Running
\* is reported only after step 7.
C1_DocumentedOrder == StartupInOrder(OrderAsDocumented)

\* C1 (amended): the same, in the order publish handles, ensure schema,
\* interceptors, routers, scheduler, admin set, default menu, admin menu.
C1_OrderAsWritten == StartupInOrder(OrderAsWritten)

C1_Witness ==
    /\ pc = "polling"
    /\ Len(PhaseLog("startup")) = 8
    /\ PhaseLog("startup")[8].op = "bot_admin_commands_setup"

\* the position of a call in an order of calls
Pos(order, o) == CHOOSE i \in 1..Len(order) : order[i] = o

\* startup was left by an exception: nothing placed after the failing call
\* has run, the failure left the handler, Running is never entered and no
\* event is consumed
AbortedAt(order) ==
    failedAt.phase = "startup" =>
        /\ pc = "startup_failed"
        /\ State # "Running"
        /\ events = 0
        /\ \A i \in 1..Len(PhaseLog("startup")) :
              LET e == PhaseLog("startup")[i] IN
              /\ Pos(order, e.op) <= Pos(order, failedAt.op)
              /\ e.ok <=> e.op # failedAt.op

\* C2 (as claimed): if documented step k fails, none of the documented steps
\* k+1..7 has executed, the failure propagates and Running is never entered.
C2_DocumentedAbort == AbortedAt(OrderAsDocumented)

\* C2 (amended): if a startup call fails, none of the calls written after it
\* in the handler has executed (publish handles precedes ensure schema), the
\* failure propagates and Running is never entered.
C2_AbortAsWritten ==
    /\ AbortedAt(OrderAsWritten)
    /\ failedAt.phase = "startup" =>
          /\ Len(PhaseLog("startup")) = Pos(OrderAsWritten, failedAt.op)
          /\ IsPrefix(Ops("startup"), OrderAsWritten)

C2_Witness ==
    /\ failedAt = [phase |-> "startup", op |-> "create_all"]
    /\ loopAttrs["bot"] # 0

\* the shutdown handler has ended, by returning or by raising
ShutdownEnded == pc \in {"stopped", "shutdown_failed"}

\* C3: shutdown attempts every one of its 8 teardown steps whatever fails,
\* and no step's error propagates out of the handler.
C3_BestEffortTeardown ==
    /\ pc # "shutdown_failed"
    /\ failedAt.phase # "shutdown"
    /\ ShutdownEnded =>
          /\ \A o \in {"get_all_ids", "bot_commands_delete",
                       "bot_admin_commands_delete", "delete_webhook",
                       "engine_dispose", "scheduler_shutdown"} :
                Calls("shutdown", o) # {}
          /\ HoldsSession(botSession) =>
                Calls("shutdown", "bot_session_close") # {}
          /\ HoldsSession(tonapiSession) =>
                Calls("shutdown", "tonapi_session_close") # {}

\* the last successful admin-set read of on_shutdown before log position i
LastShutdownFetch(i) ==
    LET F == {j \in Done("shutdown", "get_all_ids") : j < i} IN
    IF F = {} THEN 0 ELSE CHOOSE j \in F : \A k \in F : k <= j

\* C4: the admin-menu retraction is invoked with exactly the admin set the
\* database returned to the shutdown handler, whatever set startup fetched.
C4_RetractsFetchedSet ==
    \A i \in Calls("shutdown", "bot_admin_commands_delete") :
        /\ LastShutdownFetch(i) # 0
        /\ log[i].ids = log[LastShutdownFetch(i)].ids

C4_Witness ==
    /\ \E k \in Done("startup", "get_all_ids") : log[k].ids = {42}
    /\ \E i \in Done("shutdown", "bot_admin_commands_delete") :
          log[i].ids = {42, 7}

\* shutdown in the order the handler is written: the default menu is
\* retracted before the admin menu
TeardownAsWritten ==
    <<"get_all_ids", "bot_commands_delete", "bot_admin_commands_delete",
      "delete_webhook", "bot_session_close", "tonapi_session_close",
      "engine_dispose", "scheduler_shutdown">>

\* shutdown in the documented order: the admin menu is retracted (2) before
\* the default menu (3)
TeardownAsDocumented ==
    <<"get_all_ids", "bot_admin_commands_delete", "bot_commands_delete",
      "delete_webhook", "bot_session_close", "tonapi_session_close",
      "engine_dispose", "scheduler_shutdown">>

\* the calls of one shutdown follow the order strictly, and a call is made
\* only when every call placed before it has returned (a session close may
\* have been skipped because no session is held)
ShutdownInOrder(order) ==
    LET L == PhaseLog("shutdown") IN
    /\ \A i, j \in 1..Len(L) :
          i < j => Pos(order, L[i].op) < Pos(order, L[j].op)
    /\ \A j \in 1..Len(L) : \A r \in 1..(Pos(order, L[j].op) - 1) :
          \/ \E i \in 1..(j - 1) : L[i].op = order[r] /\ L[i].ok
          \/ order[r] = "bot_session_close" /\ ~HoldsSession(botSession)
          \/ order[r] = "tonapi_session_close" /\ ~HoldsSession(tonapiSession)

\* C5 (as claimed): the shutdown steps run in the documented strict total
\* order 1..8, the admin menu being retracted before the default menu.
C5_DocumentedOrder == ShutdownInOrder(TeardownAsDocumented)

\* C5 (amended): the shutdown steps run in the strict total order fetch admin
\* set, retract default menu, retract admin menu, deregister webhook, close
\* transport session, close API client session, dispose engine, deactivate
\* scheduler.
C5_OrderAsWritten == ShutdownInOrder(TeardownAsWritten)

C5_Witness ==
    /\ pc = "stopped"
    /\ Ops("shutdown") = TeardownAsWritten

\* C6: with no transport session held, the close step is skipped without
\* raising and every later step (close API client session, dispose engine,
\* deactivate scheduler) still executes.
C6_SkipThenRemainingSteps ==
    (/\ ShutdownEnded
     /\ ~HoldsSession(botSession)
     /\ Done("shutdown", "delete_webhook") # {})
    =>
    /\ Calls("shutdown", "bot_session_close") = {}
    /\ failedAt.op # "bot_session_close"
    /\ HoldsSession(tonapiSession) =>
          Calls("shutdown", "tonapi_session_close") # {}
    /\ Calls("shutdown", "engine_dispose") # {}
    /\ Calls("shutdown", "scheduler_shutdown") # {}

\* C7: no inbound event is consumed before every startup call has returned;
\* once a startup call has failed no event is ever consumed.
C7_NoEventBeforeStartupDone ==
    /\ events > 0 =>
          /\ \A i \in 1..Len(OrderAsWritten) :
                Done("startup", OrderAsWritten[i]) # {}
          /\ failedAt.phase \notin {"main", "startup"}
    /\ failedAt.phase \in {"main", "startup"} => events = 0

C7_Witness ==
    /\ events > 0
    /\ pc = "polling"
    /\ Done("startup", "bot_admin_commands_setup") # {}

\* C8: while the scheduler is active, the database engine is not disposed
\* and the API client session is not closed.
C8_NoTeardownUnderActiveScheduler ==
    schedulerActive => (~engineDisposed /\ tonapiSession # "closed")

\* C9: shutdown runs exactly once, after polling has stopped, and releases
\* the transport session, the API client session, the engine and the
\* scheduler exactly once each.
C9_ReleasedExactlyOnce ==
    /\ Calls("shutdown", "get_all_ids") # {} => ~PollingAllowed
    /\ Cardinality(Calls("shutdown", "get_all_ids")) <= 1
    /\ ShutdownEnded =>
          /\ Cardinality(Calls("shutdown", "get_all_ids")) = 1
          /\ Cardinality(Done("shutdown", "engine_dispose")) = 1
          /\ Cardinality(Done("shutdown", "scheduler_shutdown")) = 1
          /\ HoldsSession(botSession) =>
                Cardinality(Done("shutdown", "bot_session_close")) = 1
          /\ HoldsSession(tonapiSession) =>
                Cardinality(Done("shutdown", "tonapi_session_close")) = 1

\* the successor of a lifecycle state along the documented chain
NextState(st) ==
    CASE st = "Unstarted" -> "Starting"
      [] st = "Starting" -> "Running"
      [] st = "Running" -> "Stopping"
      [] st = "Stopping" -> "Stopped"
      [] st = "Stopped" -> "Stopped"

\* C10: the lifecycle state moves only along Unstarted -> Starting ->
\* Running -> Stopping -> Stopped; a start trigger outside Unstarted and a
\* stop trigger outside Running run no handler step and change nothing.
C10_TriggersGuarded ==
    [][/\ State' \in {State, NextState(State)}
       /\ (pc # "startup" /\ pc' = "startup") => State = "Unstarted"
       /\ (pc # "shutdown" /\ pc' = "shutdown") => State = "Running"]_vars

\* C11: the registry runs at most once, before polling and before the
\* scheduler is activated, interceptors before routers; no sequence of
\* lifecycle triggers registers the handlers twice.
C11_RegistryOnce ==
    /\ Cardinality(Done("startup", "bot_middlewares_register")) <= 1
    /\ Cardinality(Done("startup", "bot_routers_include")) <= 1
    /\ \A i \in Calls("startup", "bot_routers_include") :
          \E j \in Done("startup", "bot_middlewares_register") : j < i
    /\ \A i \in Calls("startup", "scheduler_run") :
          \E j \in Done("startup", "bot_routers_include") : j < i
    /\ events > 0 => Done("startup", "bot_routers_include") # {}

\* C12: a published ServiceContext member is never replaced by a different
\* handle, whatever startup step, shutdown step or repeated trigger follows.
C12_PublishedNeverReplaced ==
    [][\A n \in LoopAttrNames :
          loopAttrs[n] # 0 => loopAttrs'[n] = loopAttrs[n]]_vars

C12_Witness ==
    /\ Cardinality(Done("startup", "publish_handles")) = 2
    /\ \A n \in LoopAttrNames : loopAttrs[n] = 1

\* the last successful admin-set read of on_startup before log position i
LastStartupFetch(i) ==
    LET F == {j \in Done("startup", "get_all_ids") : j < i} IN
    IF F = {} THEN 0 ELSE CHOOSE j \in F : \A k \in F : k <= j

\* C13: the admin menu is published scoped to exactly the set the same
\* startup fetched, the empty set included; when startup has returned the
\* default menu and the admin menu of exactly that set are published.
C13_AdminMenuScopedToFetched ==
    /\ \A i \in Calls("startup", "bot_admin_commands_setup") :
          /\ LastStartupFetch(i) # 0
          /\ log[i].ids = log[LastStartupFetch(i)].ids
    /\ pc = "polling" =>
          /\ Done("startup", "bot_commands_setup") # {}
          /\ defaultMenu
          /\ \E i \in Done("startup", "bot_admin_commands_setup") :
                adminMenu = log[i].ids

\* a database without admins: startup completes, both menus are published,
\* the admin menu with empty scope, and the machine is Running
C13_Witness ==
    /\ State = "Running"
    /\ adminChanges = 0
    /\ dbAdmins = {}
    /\ defaultMenu
    /\ adminMenu = {}
    /\ \E i \in Done("startup", "bot_admin_commands_setup") : log[i].ids = {}

\* the teardown stage of a shutdown call: 0 read, 1 undo remote state,
\* 2 close sessions, 3 dispose the engine, 4 deactivate the scheduler
Stage(o) ==
    CASE o = "get_all_ids" -> 0
      [] o \in {"bot_commands_delete", "bot_admin_commands_delete",
                "delete_webhook"} -> 1
      [] o \in {"bot_session_close", "tonapi_session_close"} -> 2
      [] o = "engine_dispose" -> 3
      [] o = "scheduler_shutdown" -> 4

\* a shutdown call that is made whenever control reaches it
Unguarded(o) ==
    \/ o \notin {"bot_session_close", "tonapi_session_close"}
    \/ o = "bot_session_close" /\ HoldsSession(botSession)
    \/ o = "tonapi_session_close" /\ HoldsSession(tonapiSession)

\* C14: remote state (both menu retractions, webhook deregistration) is
\* undone before a session is closed, the sessions are closed before the
\* engine is disposed, and the scheduler is deactivated last.
C14_RemoteThenSessionsThenEngine ==
    LET L == PhaseLog("shutdown") IN
    /\ \A i, j \in 1..Len(L) : i < j => Stage(L[i].op) <= Stage(L[j].op)
    /\ \A j \in 1..Len(L) :
          \A o \in {"bot_commands_delete", "bot_admin_commands_delete",
                    "delete_webhook", "bot_session_close",
                    "tonapi_session_close", "engine_dispose"} :
             (Stage(o) < Stage(L[j].op) /\ Unguarded(o)) =>
                \E i \in 1..(j - 1) : L[i].op = o /\ L[i].ok
    /\ \A j \in 1..Len(L) : L[j].op = "scheduler_shutdown" => j = Len(L)

C14_Witness ==
    /\ pc = "stopped"
    /\ botSession = "closed"
    /\ tonapiSession = "closed"
    /\ ~schedulerActive

\* calls that go to the database through the engine
DatabaseOps == {"create_all", "get_all_ids"}

\* calls that go to the remote side through the transport session
TransportOps ==
    {"bot_commands_setup", "bot_admin_commands_setup", "bot_commands_delete",
     "bot_admin_commands_delete", "delete_webhook"}

\* C20: no database call is issued after engine.dispose() was called and no
\* transport call after bot.session.close() was called.
C20_NoUseAfterRelease ==
    \A i \in 1..Len(log) :
        /\ log[i].op \in DatabaseOps =>
              \A j \in 1..(i - 1) : log[j].op # "engine_dispose"
        /\ log[i].op \in TransportOps =>
              \A j \in 1..(i - 1) : log[j].op # "bot_session_close"

C20_Witness ==
    /\ engineDisposed
    /\ botSession = "closed"
    /\ Done("shutdown", "get_all_ids") # {}
    /\ Done("shutdown", "delete_webhook") # {}

\* C16: once the stop trigger has fired and no call hangs, the machine
\* reaches Stopped with the scheduler deactivated and the engine disposed,
\* whether the shutdown calls succeed or fail.
C16_ShutdownCompletes ==
    (pc = "shutdown") ~>
        (pc = "stopped" /\ ~schedulerActive /\ engineDisposed)

\* C17: while Running the scheduler is active, the engine is not disposed,
\* no session is closed and the default menu is published; no step taken
\* while Running changes scheduler, engine, sessions, menus or handles.
C17_FrameWhileRunning ==
    [][/\ State' = "Running" =>
             /\ schedulerActive'
             /\ ~engineDisposed'
             /\ botSession' # "closed"
             /\ tonapiSession' # "closed"
             /\ defaultMenu'
       /\ (State = "Running" /\ State' = "Running") =>
             UNCHANGED <<schedulerActive, engineDisposed, botSession,
                         tonapiSession, defaultMenu, adminMenu, loopAttrs,
                         schema>>]_vars

C17_Witness ==
    /\ State = "Running"
    /\ events > 0
    /\ adminChanges > 0
    /\ schedulerActive
    /\ ~engineDisposed

\* the lifecycle has ended: startup was aborted, or on_shutdown returned or
\* raised
LifecycleEnded == pc \in {"startup_failed", "shutdown_failed", "stopped"}

\* C18: when the lifecycle has ended the scheduler is not left active.
C18_SchedulerNotLeftActive == LifecycleEnded => ~schedulerActive

\* identities whose admin menu a returned startup call published
PublishedAtStartup ==
    UNION {log[i].ids : i \in Done("startup", "bot_admin_commands_setup")}

\* identities whose admin menu a returned shutdown call retracted
RetractedAtShutdown ==
    UNION {log[i].ids : i \in Done("shutdown", "bot_admin_commands_delete")}

\* the admin set the shutdown handler read
FetchedAtShutdown ==
    UNION {log[i].ids : i \in Done("shutdown", "get_all_ids")}

\* C19 (as claimed): after a shutdown without failure the default menu and
\* the admin menu of every identity of the startup-time set are retracted.
C19_AllPublishedRetracted ==
    pc = "stopped" =>
        /\ ~defaultMenu
        /\ PublishedAtStartup \subseteq RetractedAtShutdown
        /\ adminMenu = {}

\* C19 (amended): after a shutdown without failure the default menu is
\* retracted and the admin menu is retracted for exactly the set fetched at
\* shutdown; the menu of an identity published at startup and since removed
\* from the set stays published.
C19_RetractedForCurrentSet ==
    pc = "stopped" =>
        /\ Done("shutdown", "bot_commands_delete") # {}
        /\ ~defaultMenu
        /\ RetractedAtShutdown = FetchedAtShutdown
        /\ adminMenu = PublishedAtStartup \ FetchedAtShutdown

C19_Witness ==
    /\ pc = "stopped"
    /\ PublishedAtStartup = {7, 42}
    /\ FetchedAtShutdown = {7}
    /\ adminMenu = {42}

\* the step is a call of create_all
CreateAllStep ==
    /\ Len(log') = Len(log) + 1
    /\ log'[Len(log')].op = "create_all"

\* C15: ensure-schema is idempotent.  A returned call leaves every declared
\* table existing, drops nothing and touches no row; once a call has
\* returned, a further call changes nothing; and on whatever schema it is
\* invoked it can return (existing tables raise no duplicate error).
C15_EnsureSchemaIdempotent ==
    /\ [](StartupAt("create_all") =>
             ENABLED (Startup_EnsureSchema /\ failedAt' = failedAt))
    /\ [][CreateAllStep =>
             /\ dbAdmins' = dbAdmins
             /\ schema \subseteq schema'
             /\ log'[Len(log')].ok => Tables \subseteq schema'
             /\ ~log'[Len(log')].ok => schema' = schema
             /\ Done("startup", "create_all") # {} => schema' = schema]_vars

C15_Witness ==
    /\ Cardinality(Done("startup", "create_all")) = 2
    /\ schema = Tables

====
